---- MODULE Spec2Model ----
(***************************************************************************)
(* FeatureMappingFlattener (featureforge/flattener.py): one instance, the  *)
(* iterables handed to fit / transform / fit_transform, and the matrices   *)
(* they return.                                                            *)
(*                                                                         *)
(* Conventions.  Tuple positions are 1-based here (the code's i is 0-based)*)
(* while matrix column indexes are the code's own, 0-based.  A float is    *)
(* modelled by a natural number.  An iterable is consumed lazily: each     *)
(* step of a pass draws what the iterator yields next.                     *)
(***************************************************************************)
EXTENDS Integers, Sequences, FiniteSets, TLC

\* Bounds of the model.
MaxN == 2       \* longest feature tuple an iterable yields
MaxM == 2       \* most datapoints one iterable yields

(***************************************************************************)
(* Python values that occur as elements of a feature tuple.                *)
(***************************************************************************)
Num(n) == [k |-> "num", n |-> n, s |-> "", q |-> <<>>]
Str(s) == [k |-> "str", n |-> 0, s |-> s, q |-> <<>>]
Vec(q) == [k |-> "seq", n |-> 0, s |-> "", q |-> q]
NoneVal == [k |-> "none", n |-> 0, s |-> "", q |-> <<>>]

Numbers == {0}
Strings == {"a", "7"}
Vectors == {<<1, 0>>, <<1>>}

Values ==
  {Num(n) : n \in Numbers} \cup {Str(s) : s \in Strings}
    \cup {Vec(q) : q \in Vectors}

\* A datapoint: a tuple of values, or something that is not a tuple (a list).
Tuple(els) == [tuple |-> TRUE, els |-> els]
AList == [tuple |-> FALSE, els |-> <<Num(1)>>]

\* Tuples holding a value of an unsupported type, or an empty sequence.
Unsupported == {Tuple(<<NoneVal>>), Tuple(<<Vec(<<>>)>>)}

Tuples == {Tuple(els) : els \in UNION {[1..n -> Values] : n \in 0..MaxN}}

Datapoints == Tuples \cup Unsupported \cup {AList}

(***************************************************************************)
(* float(x) as Use(float) applies it: a number is kept, a string is parsed *)
(* and anything else is refused.                                           *)
(***************************************************************************)
NumericText == {"7"}

ParseFloat(s) == CASE s = "7" -> 7

Ok(v) == [ok |-> TRUE, v |-> v, exc |-> ""]
Raise(e) == [ok |-> FALSE, v |-> NoneVal, exc |-> e]

UseFloat(y) ==
  CASE y.k = "num" -> Ok(y)
    [] y.k = "str" /\ y.s \in NumericText -> Ok(Num(ParseFloat(y.s)))
    [] OTHER -> Raise("SchemaError")

(***************************************************************************)
(* SequenceValidator.  size is <<>> for None and <<n>> for a fixed size.   *)
(* The elements of a sequence are numbers in this model.                   *)
(***************************************************************************)
SequenceValidate(size, x) ==
  CASE x.k # "seq" -> Raise("SchemaError")
    [] x.k = "seq" /\ Len(x.q) = 0 -> Raise("ValueError")
    [] x.k = "seq" /\ Len(x.q) # 0 /\ size # <<>> /\ Len(x.q) # size[1] ->
         Raise("SchemaError")
    [] OTHER -> Ok(x)

\* SequenceValidator(example): validates the example to freeze its length.
SequenceValidatorOf(example) == <<Len(SequenceValidate(<<>>, example).v.q)>>

(***************************************************************************)
(* The per-position types of the schema and Schema(type).validate(y).      *)
(***************************************************************************)
TFloat == [t |-> "float", size |-> <<>>]
TStr == [t |-> "str", size |-> <<>>]
TSeq(size) == [t |-> "seq", size |-> size]

\* Schema wraps whatever a validator raises into SchemaError.
SchemaValidate(type, y) ==
  CASE type.t = "float" -> UseFloat(y)
    [] type.t = "str" -> IF y.k = "str" THEN Ok(y) ELSE Raise("SchemaError")
    [] type.t = "seq" ->
         LET r == SequenceValidate(type.size, y)
         IN IF r.ok THEN r ELSE Raise("SchemaError")

\* Schema((int, float, basestring, SequenceValidator())).validate(first)
AnyFeature(y) ==
  \/ y.k \in {"num", "str"}
  \/ SchemaValidate(TSeq(<<>>), y).ok

FirstSchemaValidate(first) ==
  first.tuple /\ \A i \in 1..Len(first.els) : AnyFeature(first.els[i])

(***************************************************************************)
(* TupleValidator.validate                                                 *)
(***************************************************************************)
TupleOk(els) == [ok |-> TRUE, els |-> els, exc |-> ""]
TupleRaise(e) == [ok |-> FALSE, els |-> <<>>, exc |-> e]

TupleValidate(validator, x) ==
  IF ~x.tuple THEN TupleRaise("SchemaError")
  ELSE IF Len(x.els) # validator.N THEN TupleRaise("SchemaError")
  ELSE IF \E i \in 1..validator.N : ~SchemaValidate(validator.tt[i], x.els[i]).ok
    THEN TupleRaise("SchemaError")
  ELSE TupleOk([i \in 1..validator.N |->
                  SchemaValidate(validator.tt[i], x.els[i]).v])

(***************************************************************************)
(* The learned state of an instance and the operations that build it.      *)
(***************************************************************************)
NoValidator == [tt |-> <<>>, N |-> 0]

\* __init__: no learned attribute exists yet (has = FALSE).
New(sparse) ==
  [sparse |-> sparse, has |-> FALSE, indexes |-> <<>>, reverse |-> <<>>,
   schema |-> <<>>, str_tuple_indexes |-> <<>>, validator |-> NoValidator]

\* a slip: columns numbered from 1
_add_column_gap(self, i, value) ==
  LET key == <<i, value>>
  IN IF key \notin DOMAIN self.indexes
       THEN [self EXCEPT
               !.indexes = (key :> Cardinality(DOMAIN self.indexes) + 1) @@ self.indexes,
               !.reverse = Append(self.reverse, key)]
       ELSE self

_add_column(self, i, value) ==
  LET key == <<i, value>>
  IN IF key \notin DOMAIN self.indexes
       THEN [self EXCEPT
               !.indexes = (key :> Cardinality(DOMAIN self.indexes)) @@ self.indexes,
               !.reverse = Append(self.reverse, key)]
       ELSE self

RECURSIVE AddColumns(_, _, _, _)
\* for j in range(size): self._add_column(i, j), from offset j
AddColumns(self, i, j, size) ==
  IF j >= size THEN self
  ELSE AddColumns(_add_column(self, i, Num(j)), i, j + 1, size)

RECURSIVE FitFirstLoop(_, _, _)
\* the loop of _fit_first over enumerate(first), from position i
FitFirstLoop(self, first, i) ==
  IF i > Len(first) THEN self
  ELSE LET data == first[i]
       IN CASE data.k = "num" ->
                 FitFirstLoop(
                   [_add_column(self, i, NoneVal) EXCEPT
                      !.schema = Append(@, TFloat)], first, i + 1)
            [] data.k = "str" ->
                 FitFirstLoop(
                   [self EXCEPT
                      !.schema = Append(@, TStr),
                      !.str_tuple_indexes = Append(@, i)], first, i + 1)
            [] OTHER ->
                 LET type == TSeq(SequenceValidatorOf(data))
                 IN FitFirstLoop(
                      [AddColumns(self, i, 0, type.size[1]) EXCEPT
                         !.schema = Append(@, type)], first, i + 1)

\* a slip: the maps of an earlier fit are not cleared
_fit_first_keep(self, first) ==
  IF ~FirstSchemaValidate(first) THEN [ok |-> FALSE, self |-> self, exc |-> "SchemaError"]
  ELSE IF Len(first.els) = 0 THEN [ok |-> FALSE, self |-> self, exc |-> "ValueError"]
  ELSE LET blank == [self EXCEPT !.has = TRUE, !.schema = <<>>,
                                 !.str_tuple_indexes = <<>>]
           built == FitFirstLoop(blank, first.els, 1)
       IN [ok |-> TRUE,
           self |-> [built EXCEPT
                       !.validator = [tt |-> built.schema, N |-> Len(built.schema)]],
           exc |-> ""]

\* _fit_first: [ok, self, exc]
_fit_first(self, first) ==
  IF ~FirstSchemaValidate(first) THEN [ok |-> FALSE, self |-> self, exc |-> "SchemaError"]
  ELSE IF Len(first.els) = 0 THEN [ok |-> FALSE, self |-> self, exc |-> "ValueError"]
  ELSE LET blank == [self EXCEPT !.has = TRUE, !.indexes = <<>>, !.reverse = <<>>,
                                 !.schema = <<>>, !.str_tuple_indexes = <<>>]
           built == FitFirstLoop(blank, first.els, 1)
       IN [ok |-> TRUE,
           self |-> [built EXCEPT
                       !.validator = [tt |-> built.schema, N |-> Len(built.schema)]],
           exc |-> ""]

RECURSIVE FitStepLoop(_, _, _)
\* _fit_step: for i in self.str_tuple_indexes, from the k-th of them
FitStepLoop(self, datapoint, k) ==
  IF k > Len(self.str_tuple_indexes) THEN self
  ELSE LET i == self.str_tuple_indexes[k]
       IN FitStepLoop(_add_column(self, i, datapoint[i]), datapoint, k + 1)

_fit_step(self, datapoint) == FitStepLoop(self, datapoint, 1)

(***************************************************************************)
(* Row materialization.  A dense vector is a sequence of len(self.indexes) *)
(* cells, column j at place j + 1; a sparse row is the sequence of the     *)
(* (column, value) pairs the generator yields.                             *)
(***************************************************************************)
Zeros(n) == [c \in 1..n |-> 0]

\* vector[j:j + len(data)] = data
SetSlice(vector, j, data) ==
  [c \in 1..Len(vector) |->
     IF c - 1 >= j /\ c - 1 < j + Len(data) THEN data[c - j] ELSE vector[c]]

\* the assert of both step functions on a sequence at position i
SliceAssert(self, i, data) ==
  self.indexes[<<i, Num(Len(data.q) - 1)>>]
    = self.indexes[<<i, Num(0)>>] + Len(data.q) - 1

StepAsserts(self, datapoint) ==
  \A i \in 1..Len(datapoint) :
    datapoint[i].k = "seq" => SliceAssert(self, i, datapoint[i])

RECURSIVE TransformStepLoop(_, _, _, _)
TransformStepLoop(self, datapoint, i, vector) ==
  IF i > Len(datapoint) THEN vector
  ELSE LET data == datapoint[i]
       IN CASE data.k = "num" ->
                 TransformStepLoop(self, datapoint, i + 1,
                   [vector EXCEPT ![self.indexes[<<i, NoneVal>>] + 1] = data.n])
            [] data.k = "str" ->
                 TransformStepLoop(self, datapoint, i + 1,
                   IF <<i, data>> \in DOMAIN self.indexes
                     THEN [vector EXCEPT ![self.indexes[<<i, data>>] + 1] = 1]
                     ELSE vector)
            [] OTHER ->
                 TransformStepLoop(self, datapoint, i + 1,
                   SetSlice(vector, self.indexes[<<i, Num(0)>>], data.q))

_transform_step(self, datapoint) ==
  TransformStepLoop(self, datapoint, 1, Zeros(Cardinality(DOMAIN self.indexes)))

RECURSIVE SparseTransformStepLoop(_, _, _)
SparseTransformStepLoop(self, datapoint, i) ==
  IF i > Len(datapoint) THEN <<>>
  ELSE LET data == datapoint[i]
           rest == SparseTransformStepLoop(self, datapoint, i + 1)
       IN CASE data.k = "num" ->
                 <<<<self.indexes[<<i, NoneVal>>], data.n>>>> \o rest
            [] data.k = "str" ->
                 IF <<i, data>> \in DOMAIN self.indexes
                   THEN <<<<self.indexes[<<i, data>>], 1>>>> \o rest
                   ELSE rest
            [] OTHER ->
                 [k \in 1..Len(data.q) |->
                    <<self.indexes[<<i, Num(0)>>] + k - 1, data.q[k]>>] \o rest

_sparse_transform_step(self, datapoint) == SparseTransformStepLoop(self, datapoint, 1)

\* `data != 0` compares the array.array of stored values with an int: an
\* array is never equal to a number, whatever it holds.
ArrayNeZero(data) == TRUE

RECURSIVE SparseAppend(_, _, _)
\* the inner loop of the sparse passes: [data, indices] after the pairs from k on
SparseAppend(acc, pairs, k) ==
  IF k > Len(pairs) THEN acc
  ELSE SparseAppend(
         IF ArrayNeZero(acc.data)
           THEN [data |-> Append(acc.data, pairs[k][2]),
                 indices |-> Append(acc.indices, pairs[k][1])]
           ELSE acc,
         pairs, k + 1)

(***************************************************************************)
(* What a public call gives back.                                          *)
(***************************************************************************)
NoResult ==
  [kind |-> "none", rows |-> <<>>, shape |-> <<0, 0>>, data |-> <<>>,
   indices |-> <<>>, indptr |-> <<>>, exc |-> ""]

Self == [NoResult EXCEPT !.kind = "self"]

\* an exception leaving the call; _wrapcall turns SchemaError into ValueError
_wrapcall(exc) ==
  [NoResult EXCEPT !.kind = "error",
                   !.exc = IF exc = "SchemaError" THEN "ValueError" ELSE exc]

\* numpy.zeros((0, n))
ZeroRows(n) == [NoResult EXCEPT !.kind = "dense", !.shape = <<0, n>>]

\* numpy.concatenate of (1, k) arrays: they must agree on k
Concatenate(matrix) ==
  IF \A r \in 1..Len(matrix) : Len(matrix[r]) = Len(matrix[1])
    THEN [NoResult EXCEPT !.kind = "dense", !.rows = matrix,
                          !.shape = <<Len(matrix), Len(matrix[1])>>]
    ELSE _wrapcall("ValueError")

\* a slip: the empty result built without its columns, numpy.zeros((0, 0))
DenseResultNoColumns(self, matrix) ==
  IF matrix = <<>> THEN ZeroRows(0)
  ELSE Concatenate(matrix)

DenseResult(self, matrix) ==
  IF matrix = <<>> THEN ZeroRows(Cardinality(DOMAIN self.indexes))
  ELSE Concatenate(matrix)

SparseResult(self, data, indices, indptr) ==
  IF data = <<>> THEN ZeroRows(Cardinality(DOMAIN self.indexes))
  ELSE [NoResult EXCEPT !.kind = "csr", !.data = data, !.indices = indices,
                        !.indptr = indptr,
                        !.shape = <<Len(indptr) - 1, Cardinality(DOMAIN self.indexes)>>]

\* a slip: numpy.resize, which fills the new cells with repeated copies
ResizeRepeat(vector, N) ==
  [c \in 1..N |-> vector[((c - 1) % Len(vector)) + 1]]

\* vector.resize((1, N)) on a copy: the cells are kept, the tail is zero
Resize(vector, N) ==
  [c \in 1..N |-> IF c <= Len(vector) THEN vector[c] ELSE 0]

RECURSIVE PadLoop(_, _, _)
\* the padding loop of _fit_transform from row i; len() of a (1, k) array is 1
PadLoop(matrix, N, i) ==
  IF i > Len(matrix) THEN matrix
  ELSE IF 1 = N THEN matrix
  ELSE PadLoop([matrix EXCEPT ![i] = Resize(matrix[i], N)], N, i + 1)

(***************************************************************************)
(* State.                                                                  *)
(*   self     the instance: sparse and, once has, the learned attributes   *)
(*   pc       where the public call in progress stands, or "idle"          *)
(*   op       the public call in progress or, when idle, the last one      *)
(*   arg      the datapoints the call's iterator has yielded so far        *)
(*   pending  `first`, while _iter_valid has still to yield it             *)
(*   unread   the datapoint still waiting in the caller's iterator after   *)
(*            fit returned without iterating (no position is a string)     *)
(*   matrix, data, indices, indptr   the locals of the running pass        *)
(*   result   what the last finished call gave back                        *)
(*   fitted   a fit / fit_transform call has returned normally             *)
(*   tape     the iterable of the running call when it is a fixed one      *)
(*   phase, tapes, saved   the script of the twin runs, see SpecFused   *)
(***************************************************************************)
VARIABLES self, pc, op, arg, pending, unread, matrix, data, indices, indptr,
          result, fitted, tape, phase, tapes, saved

vars == <<self, pc, op, arg, pending, unread, matrix, data, indices, indptr,
          result, fitted, tape, phase, tapes, saved>>

script == <<phase, tapes, saved>>

NoTape == [on |-> FALSE, items |-> <<>>]
Fixed(items) == [on |-> TRUE, items |-> items]

\* next(X) after `consumed` datapoints: <<>> is StopIteration, <<d>> yields d
Events(tp, consumed) ==
  IF tp.on
    THEN {IF Len(consumed) < Len(tp.items) THEN <<tp.items[Len(consumed) + 1]>> ELSE <<>>}
    ELSE {<<>>} \cup (IF Len(consumed) < MaxM THEN {<<d>> : d \in Datapoints} ELSE {})

Locals(m, d, i, p) == [matrix |-> m, data |-> d, indices |-> i, indptr |-> p]
NoLocals == Locals(<<>>, <<>>, <<>>, <<>>)

Fits == {"fit", "fit_transform"}
Returned == {"self", "dense", "csr"}

\* the call goes on: the instance, the consumed input and the locals move
Continue(at, self2, arg2, pending2, loc) ==
  /\ pc' = at
  /\ self' = self2
  /\ arg' = arg2
  /\ pending' = pending2
  /\ matrix' = loc.matrix
  /\ data' = loc.data
  /\ indices' = loc.indices
  /\ indptr' = loc.indptr
  /\ UNCHANGED <<op, result, unread, fitted, tape>>

\* the call ends, by a return or by an exception: its locals are gone.  Of a
\* call that raised, a free run does not keep the input.
Finish(self2, arg2, res) ==
  /\ pc' = "idle"
  /\ self' = self2
  /\ arg' = IF res.kind = "error" /\ phase = "free" THEN <<>> ELSE arg2
  /\ pending' = <<>>
  /\ matrix' = <<>>
  /\ data' = <<>>
  /\ indices' = <<>>
  /\ indptr' = <<>>
  /\ result' = res
  /\ fitted' = (fitted \/ (op \in Fits /\ res.kind \in Returned))
  /\ UNCHANGED <<op, unread, tape>>

\* a public call is entered on the iterable tp: X = iter(X), and the locals
\* the pass sets up before its loop
Enter(name, at, tp, loc) ==
  /\ pc = "idle"
  /\ pc' = at
  /\ op' = name
  /\ tape' = tp
  /\ arg' = <<>>
  /\ pending' = <<>>
  /\ unread' = <<>>
  /\ result' = NoResult
  /\ matrix' = loc.matrix
  /\ data' = loc.data
  /\ indices' = loc.indices
  /\ indptr' = loc.indptr
  /\ UNCHANGED <<self, fitted>>

\* one datapoint of a pass materialized into the locals
Materialize(me, datapoint, loc) ==
  IF me.sparse
    THEN LET acc == SparseAppend([data |-> loc.data, indices |-> loc.indices],
                                 _sparse_transform_step(me, datapoint), 1)
         IN Locals(loc.matrix, acc.data, acc.indices,
                   Append(loc.indptr, Len(acc.data)))
    ELSE Locals(Append(loc.matrix, _transform_step(me, datapoint)),
                loc.data, loc.indices, loc.indptr)

\* matrix = [], or the three arrays of the compressed rows
FreshLocals(sparse) ==
  IF sparse THEN Locals(<<>>, <<>>, <<>>, <<0>>) ELSE NoLocals

CurrentLocals == Locals(matrix, data, indices, indptr)

(***************************************************************************)
(* fit                                                                     *)
(***************************************************************************)
CallFit(tp) == Enter("fit", "fit.first", tp, NoLocals)

\* first = next(X), _fit_first(first) and the test for string positions
FitFirst ==
  /\ pc = "fit.first"
  /\ UNCHANGED script
  /\ \E ev \in Events(tape, <<>>) :
       IF ev = <<>> THEN Finish(self, <<>>, _wrapcall("ValueError"))
       ELSE LET r == _fit_first(self, ev[1])
            IN IF ~r.ok THEN Finish(self, ev, _wrapcall(r.exc))
               ELSE IF r.self.str_tuple_indexes # <<>>
                 THEN Continue("fit.loop", r.self, ev, ev, NoLocals)
               ELSE Finish(r.self, ev, Self)

\* one round of the loop of _fit over _iter_valid(X, first=first), or its end
FitStep ==
  /\ pc = "fit.loop"
  /\ UNCHANGED script
  /\ \E ev \in (IF pending # <<>> THEN {pending} ELSE Events(tape, arg)) :
       LET arg2 == IF pending # <<>> THEN arg ELSE arg \o ev
       IN IF ev = <<>> THEN Finish(self, arg, Self)
          ELSE LET v == TupleValidate(self.validator, ev[1])
               IN IF ~v.ok THEN Finish(self, arg2, _wrapcall(v.exc))
                  ELSE Continue("fit.loop", _fit_step(self, v.els), arg2, <<>>, NoLocals)

\* The caller's iterator after a fit that did not iterate: it still holds
\* whatever followed `first`.
Leftover ==
  /\ pc = "idle"
  /\ op = "fit"
  /\ result.kind = "self"
  /\ self.str_tuple_indexes = <<>>
  /\ unread = <<>>
  /\ \E ev \in Events(tape, arg) \ {<<>>} : unread' = ev
  /\ UNCHANGED <<self, pc, op, arg, pending, matrix, data, indices, indptr,
                 result, fitted, tape, script>>

(***************************************************************************)
(* transform                                                               *)
(***************************************************************************)
CallTransform(tp) ==
  Enter("transform", "transform.loop", tp, FreshLocals(self.sparse))

\* one round of the loop of _transform / _sparse_transform, or the assembly
\* after it.  Without learned attributes the pass stops at the first
\* self.validator or self.indexes it evaluates.
TransformStep ==
  /\ pc = "transform.loop"
  /\ UNCHANGED script
  /\ IF ~self.has THEN Finish(self, <<>>, _wrapcall("AttributeError"))
     ELSE \E ev \in Events(tape, arg) :
       IF ev = <<>>
         THEN Finish(self, arg,
                     IF self.sparse
                       THEN SparseResult(self, data, indices, indptr)
                       ELSE DenseResult(self, matrix))
         ELSE LET v == TupleValidate(self.validator, ev[1])
              IN IF ~v.ok THEN Finish(self, arg \o ev, _wrapcall(v.exc))
                 ELSE IF ~StepAsserts(self, v.els)
                   THEN Finish(self, arg \o ev, _wrapcall("AssertionError"))
                 ELSE Continue("transform.loop", self, arg \o ev, <<>>,
                               Materialize(self, v.els, CurrentLocals))

(***************************************************************************)
(* fit_transform                                                           *)
(***************************************************************************)
CallFitTransform(tp) == Enter("fit_transform", "fit_transform.first", tp, NoLocals)

\* first = next(X), _fit_first(first) and the locals of the fused pass
FitTransformFirst ==
  /\ pc = "fit_transform.first"
  /\ UNCHANGED script
  /\ \E ev \in Events(tape, <<>>) :
       IF ev = <<>> THEN Finish(self, <<>>, _wrapcall("ValueError"))
       ELSE LET r == _fit_first(self, ev[1])
            IN IF ~r.ok THEN Finish(self, ev, _wrapcall(r.exc))
               ELSE Continue("fit_transform.loop", r.self, ev, ev,
                             FreshLocals(r.self.sparse))

\* one round of the fused loop, or the padding and assembly after it
FitTransformStep ==
  /\ pc = "fit_transform.loop"
  /\ UNCHANGED script
  /\ \E ev \in (IF pending # <<>> THEN {pending} ELSE Events(tape, arg)) :
       LET arg2 == IF pending # <<>> THEN arg ELSE arg \o ev
       IN IF ev = <<>>
            THEN Finish(self, arg,
                        IF self.sparse
                          THEN SparseResult(self, data, indices, indptr)
                          ELSE DenseResult(self,
                                 PadLoop(matrix, Cardinality(DOMAIN self.indexes), 1)))
            ELSE LET v == TupleValidate(self.validator, ev[1])
                     grown == _fit_step(self, v.els)
                 IN IF ~v.ok THEN Finish(self, arg2, _wrapcall(v.exc))
                    ELSE IF ~StepAsserts(grown, v.els)
                      THEN Finish(grown, arg2, _wrapcall("AssertionError"))
                    ELSE Continue("fit_transform.loop", grown, arg2, <<>>,
                                  Materialize(grown, v.els, CurrentLocals))

(***************************************************************************)
(* One instance, any calls in any order.                                   *)
(***************************************************************************)
InitAt(modes, start) ==
  /\ self \in {New(b) : b \in modes}
  /\ pc = "idle"
  /\ op = "none"
  /\ arg = <<>>
  /\ pending = <<>>
  /\ unread = <<>>
  /\ matrix = <<>>
  /\ data = <<>>
  /\ indices = <<>>
  /\ indptr = <<>>
  /\ result = NoResult
  /\ fitted = FALSE
  /\ tape = NoTape
  /\ phase = start
  /\ tapes = <<>>
  /\ saved = [result |-> NoResult, self |-> New(FALSE)]

Init == InitAt(BOOLEAN, "free")

Fit == CallFit(NoTape) /\ UNCHANGED script

Transform == CallTransform(NoTape) /\ UNCHANGED script

FitTransform == CallFitTransform(NoTape) /\ UNCHANGED script

Next ==
  \/ Fit
  \/ FitFirst
  \/ FitStep
  \/ Leftover
  \/ Transform
  \/ TransformStep
  \/ FitTransform
  \/ FitTransformFirst
  \/ FitTransformStep

Spec == Init /\ [][Next]_vars

(***************************************************************************)
(* An instance that is fitted once: fit and fit_transform are called only  *)
(* while it has no learned attribute yet.                                  *)
(***************************************************************************)
FreshFit == ~self.has /\ Fit

FreshFitTransform == ~self.has /\ FitTransform

NextFresh ==
  \/ FreshFit
  \/ FitFirst
  \/ FitStep
  \/ Leftover
  \/ Transform
  \/ TransformStep
  \/ FreshFitTransform
  \/ FitTransformFirst
  \/ FitTransformStep

SpecFresh == Init /\ [][NextFresh]_vars

(***************************************************************************)
(* Twin runs.  A first instance runs on iterables drawn freely; what they  *)
(* yielded is recorded, and a second, new instance is then run on the same *)
(* data.  saved keeps what the first run returned and left behind.         *)
(***************************************************************************)
\* the first instance is dropped and FeatureMappingFlattener(sparse) built
Restart(sparse, next) ==
  /\ pc = "idle"
  /\ saved' = [result |-> result, self |-> self]
  /\ tapes' = Append(tapes, arg)
  /\ phase' = next
  /\ self' = New(sparse)
  /\ pc' = "idle"
  /\ op' = "none"
  /\ arg' = <<>>
  /\ pending' = <<>>
  /\ unread' = <<>>
  /\ matrix' = <<>>
  /\ data' = <<>>
  /\ indices' = <<>>
  /\ indptr' = <<>>
  /\ result' = NoResult
  /\ fitted' = FALSE
  /\ tape' = NoTape

\* fit_transform(X) on one instance, fit(X) then transform(X) on another
FusedCall ==
  /\ phase = "F0"
  /\ CallFitTransform(NoTape)
  /\ phase' = "F1"
  /\ UNCHANGED <<tapes, saved>>

FusedRestart == phase = "F1" /\ Restart(self.sparse, "F2")

FusedFit ==
  /\ phase = "F2"
  /\ CallFit(Fixed(tapes[1]))
  /\ phase' = "F3"
  /\ UNCHANGED <<tapes, saved>>

FusedTransform ==
  /\ phase = "F3"
  /\ result.kind = "self"
  /\ CallTransform(Fixed(tapes[1]))
  /\ phase' = "F4"
  /\ UNCHANGED <<tapes, saved>>

NextFused ==
  \/ FusedCall
  \/ FitTransformFirst
  \/ FitTransformStep
  \/ FusedRestart
  \/ FusedFit
  \/ FitFirst
  \/ FitStep
  \/ FusedTransform
  \/ TransformStep

SpecFused == InitAt(BOOLEAN, "F0") /\ [][NextFused]_vars

\* the chain fit(X).transform(X) of the second instance is over
FusedDone ==
  /\ pc = "idle"
  /\ \/ phase = "F4"
     \/ phase = "F3" /\ result.kind = "error"

\* fit(X) then transform(Y) on a dense instance and again on a sparse one
ModesFit ==
  /\ phase = "M0"
  /\ CallFit(NoTape)
  /\ phase' = "M1"
  /\ UNCHANGED <<tapes, saved>>

ModesTransform ==
  /\ phase = "M1"
  /\ result.kind = "self"
  /\ CallTransform(NoTape)
  /\ phase' = "M2"
  /\ tapes' = <<arg>>
  /\ UNCHANGED saved

ModesRestart == phase = "M2" /\ Restart(TRUE, "M3")

ModesRefit ==
  /\ phase = "M3"
  /\ CallFit(Fixed(tapes[1]))
  /\ phase' = "M4"
  /\ UNCHANGED <<tapes, saved>>

ModesRetransform ==
  /\ phase = "M4"
  /\ result.kind = "self"
  /\ CallTransform(Fixed(tapes[2]))
  /\ phase' = "M5"
  /\ UNCHANGED <<tapes, saved>>

NextModes ==
  \/ ModesFit
  \/ FitFirst
  \/ FitStep
  \/ ModesTransform
  \/ TransformStep
  \/ ModesRestart
  \/ ModesRefit
  \/ ModesRetransform

SpecModes == InitAt({FALSE}, "M0") /\ [][NextModes]_vars

(***************************************************************************)
(* Vocabulary used by the properties.                                      *)
(***************************************************************************)
IsMatrix(res) == res.kind \in {"dense", "csr"}

Keys == DOMAIN self.indexes

IsCategorical(key) == key[2].k = "str"

\* The datapoints of arg that have gone through validation and _fit_step.
Processed ==
  IF pending # <<>> THEN <<>>
  ELSE IF result.kind = "error" THEN SubSeq(arg, 1, Len(arg) - 1)
  ELSE arg

\* the string positions of the tuple the schema was inferred from
StringPositions(first) == {i \in 1..Len(first.els) : first.els[i].k = "str"}

\* the (position, value) pairs seen at string positions, and when first seen
Observed(seen, first) ==
  {<<i, seen[t].els[i]>> : t \in 1..Len(seen), i \in StringPositions(first)}

FirstSeenAt(key, seen) ==
  LET at == {t \in 1..Len(seen) : seen[t].els[key[1]] = key[2]}
  IN CHOOSE t \in at : \A u \in at : t <= u

SeenBefore(k1, k2, seen) ==
  \/ FirstSeenAt(k1, seen) < FirstSeenAt(k2, seen)
  \/ FirstSeenAt(k1, seen) = FirstSeenAt(k2, seen) /\ k1[1] < k2[1]

(***************************************************************************)
(* C4.  Column Index Map during and after the fit pass of a fresh instance *)
(***************************************************************************)
\* keys <-> 0..n-1 without gaps, in agreement with the reverse list
C4_Bijection ==
  /\ Len(self.reverse) = Cardinality(Keys)
  /\ \A j \in 1..Len(self.reverse) :
       self.reverse[j] \in Keys /\ self.indexes[self.reverse[j]] = j - 1

\* every Numeric and FixedVector column comes before every Categorical one
C4_NumericFirst ==
  \A k1, k2 \in Keys :
    (~IsCategorical(k1) /\ IsCategorical(k2)) => self.indexes[k1] < self.indexes[k2]

\* Categorical columns are exactly the observed pairs, in first-seen order
C4_FirstSeen ==
  (op \in Fits /\ result.kind # "error") =>
    LET cats == {k \in Keys : IsCategorical(k)}
    IN /\ cats = Observed(Processed, arg[1])
       /\ \A k1, k2 \in cats :
            k1 # k2 =>
              (self.indexes[k1] < self.indexes[k2] <=> SeenBefore(k1, k2, Processed))

C4_State == self.has => (C4_Bijection /\ C4_NumericFirst /\ C4_FirstSeen)

\* an index once assigned is kept
C4_Step ==
  \A k \in Keys : k \in DOMAIN self'.indexes /\ self'.indexes[k] = self.indexes[k]

\* C4: on an instance fitted once, in every state during and after the fit
\* or fit_transform pass the Column Index Map is a bijection from its keys
\* onto 0..n-1 that agrees with the reverse list, no assigned index ever
\* changes, Numeric and FixedVector columns precede Categorical ones, and
\* Categorical columns are numbered in the order their (position, value)
\* pairs are first observed, tuple by tuple and left to right.
C4_IndexMap == []C4_State /\ [][C4_Step]_vars

\* a pass has numbered a Numeric or FixedVector column and, after it, two
\* Categorical columns
C4_Witness ==
  /\ self.has
  /\ op \in Fits
  /\ Len(self.reverse) >= 3
  /\ \E k1, k2 \in Keys :
       /\ ~IsCategorical(k1) /\ IsCategorical(k2)
       /\ \E k3 \in Keys : IsCategorical(k3) /\ k3 # k2

(***************************************************************************)
(* The cells of a returned matrix.                                         *)
(***************************************************************************)
RECURSIVE CsrSum(_, _, _, _)
\* the stored values of places p..hi that sit in column c, added up
CsrSum(res, p, hi, c) ==
  IF p > hi THEN 0
  ELSE (IF res.indices[p] = c THEN res.data[p] ELSE 0) + CsrSum(res, p + 1, hi, c)

\* the rows of a matrix as dense vectors (todense() of a csr_matrix)
Rows(res) ==
  IF res.kind = "dense" THEN res.rows
  ELSE [r \in 1..res.shape[1] |->
          [c \in 1..res.shape[2] |->
             CsrSum(res, res.indptr[r] + 1, res.indptr[r + 1], c - 1)]]

SameOutcome(a, b) ==
  IF IsMatrix(a)
    THEN a.kind = b.kind /\ a.shape = b.shape /\ Rows(a) = Rows(b)
    ELSE a.kind = "error" /\ b.kind = "error"

(***************************************************************************)
(* C1.  fit_transform against fit followed by transform                    *)
(***************************************************************************)
\* C1: for every dataset X, fit_transform(X) on a fresh instance and fit(X)
\* followed by transform(X) on a fresh instance end alike: both return the
\* same matrix (same kind, same shape, same value in every cell, the rows
\* materialized before later vocabulary growth zero-padded to the final
\* width) or both raise, and both leave the same Column Index Map.
C1_FusedEquivalence ==
  FusedDone =>
    /\ SameOutcome(saved.result, result)
    /\ self.indexes = saved.self.indexes
    /\ self.reverse = saved.self.reverse

\* both runs returned a dense matrix of two rows or more whose first row was
\* materialized before the second tuple added a Categorical column
C1_Witness ==
  /\ FusedDone
  /\ phase = "F4"
  /\ ~self.sparse
  /\ IsMatrix(result) /\ IsMatrix(saved.result)
  /\ Len(arg) >= 2
  /\ \E i \in StringPositions(arg[1]) : arg[1].els[i] # arg[2].els[i]

(***************************************************************************)
(* What the specification says a dataset should give, stated from the      *)
(* tuples themselves.                                                      *)
(***************************************************************************)
\* the Column Kind of each position of the tuple the schema is inferred from
KindsOf(first) ==
  [i \in 1..Len(first.els) |->
     CASE first.els[i].k = "num" -> TFloat
       [] first.els[i].k = "str" -> TStr
       [] OTHER -> TSeq(<<Len(first.els[i].q)>>)]

\* the columns a fit pass over `seen`, begun with `first`, should register
ColumnsOf(first, seen) ==
  {<<i, NoneVal>> : i \in {j \in 1..Len(first.els) : first.els[j].k = "num"}}
    \cup UNION {{<<i, Num(o)>> : o \in 0..(Len(first.els[i].q) - 1)} :
                  i \in {j \in 1..Len(first.els) : first.els[j].k = "seq"}}
    \cup Observed(seen, first)

\* the value at position i matches the Column Kind recorded for it
KindMatches(type, y) ==
  CASE type.t = "float" -> y.k = "num"
    [] type.t = "str" -> y.k = "str"
    [] type.t = "seq" -> y.k = "seq" /\ <<Len(y.q)>> = type.size

Conforms(d) ==
  /\ d.tuple
  /\ Len(d.els) = Len(self.schema)
  /\ \A i \in 1..Len(d.els) : KindMatches(self.schema[i], d.els[i])

\* the cell a conforming tuple d should have in the column of `key`
CellOf(d, key) ==
  CASE key[2].k = "none" -> UseFloat(d.els[key[1]]).v.n
    [] key[2].k = "num" -> d.els[key[1]].q[key[2].n + 1]
    [] OTHER -> IF d.els[key[1]] = key[2] THEN 1 ELSE 0

RowOf(d) == [c \in 1..Len(self.reverse) |-> CellOf(d, self.reverse[c])]

\* a call of one of the two matrix-returning operations has returned a matrix
Transformed ==
  /\ pc = "idle"
  /\ op \in {"transform", "fit_transform"}
  /\ IsMatrix(result)

\* a step of a transform call
InTransform == pc = "transform.loop" \/ pc' = "transform.loop"

(***************************************************************************)
(* C9.  transform only reads the learned state                             *)
(***************************************************************************)
C9_Columns ==
  (fitted /\ pc = "idle" /\ op = "transform" /\ IsMatrix(result)) =>
    result.shape[2] = Len(self.reverse)

C9_Step == (fitted /\ InTransform) => self' = self

\* C9: no step of a transform call on a Fitted instance, returning or
\* raising, changes the Schema, the Column Index Map, the reverse list or
\* the list of categorical positions, and every matrix transform returns
\* has as many columns as were registered when the fit ended.
C9_TransformReadsOnly == []C9_Columns /\ [][C9_Step]_vars

\* transform returned rows for tuples one of which carries a string that fit
\* never registered: the map had something to grow by, and did not
C9_Witness ==
  /\ fitted /\ pc = "idle" /\ op = "transform" /\ IsMatrix(result)
  /\ result.shape[1] >= 1
  /\ \E r \in 1..Len(arg) : \E i \in 1..Len(arg[r].els) :
       arg[r].els[i].k = "str" /\ self.schema[i].t = "str"
         /\ <<i, arg[r].els[i]>> \notin Keys

(***************************************************************************)
(* C7.  The Fitted state and a second fit                                  *)
(***************************************************************************)
\* C7 as claimed: once a fit or fit_transform call has returned, no later
\* step of any public call changes the Schema or the Column Index Map.
C7_FrozenForever ==
  [][fitted => (self'.schema = self.schema /\ self'.indexes = self.indexes)]_vars

\* a fit pass past its schema inference has learned from its own input only
C7_OwnData ==
  (self.has /\ op \in Fits /\ arg # <<>> /\ result.kind # "error") =>
    /\ self.schema = KindsOf(arg[1])
    /\ Keys = ColumnsOf(arg[1], Processed)

C7_Step ==
  fitted =>
    /\ fitted' /\ self'.has
    /\ self' # self => (op \in Fits /\ pc \in {"fit.first", "fit.loop",
                                                "fit_transform.first",
                                                "fit_transform.loop"})

\* C7 amended: once Fitted the instance stays Fitted, and its Schema and
\* Column Index Map change only inside a later fit or fit_transform call;
\* such a call discards both and rebuilds them from its own dataset (the
\* Schema from its first tuple, the columns from its own tuples only).
C7_RefitRebuilds == []C7_OwnData /\ [][C7_Step]_vars

\* a later fit or fit_transform pass is under way on a Fitted instance: it
\* is past its schema inference and has processed tuples of its own
C7_Witness ==
  /\ fitted
  /\ pc \in {"fit.loop", "fit_transform.loop"}
  /\ arg # <<>>
  /\ pending = <<>>

(***************************************************************************)
(* C3.  Row count                                                          *)
(***************************************************************************)
\* C3: a matrix returned by transform on a Fitted instance or by
\* fit_transform has exactly one row per tuple of the dataset, in input
\* order, in dense and in sparse mode, whatever the rows contain.
C3_RowCount ==
  Transformed =>
    /\ result.shape[1] = Len(arg)
    /\ Len(Rows(result)) = Len(arg)
    /\ \A r \in 1..Len(arg) : Rows(result)[r] = RowOf(arg[r])

(***************************************************************************)
(* C5.  Schema violations at transform                                     *)
(***************************************************************************)
\* C5: transform on a Fitted instance never returns a matrix for a dataset
\* holding a tuple of the wrong length or with a value that is not of the
\* kind recorded for its position (a number for Numeric, a string for
\* Categorical, a numeric sequence of the recorded size for FixedVector).
C5_SchemaMismatchRaises ==
  (fitted /\ pc = "idle" /\ op = "transform" /\ IsMatrix(result)) =>
    \A r \in 1..Len(arg) : Conforms(arg[r])

(***************************************************************************)
(* C6.  Unseen categories                                                  *)
(***************************************************************************)
\* C6: when transform on a Fitted instance has returned, every tuple that
\* carries at a Categorical position a string never registered for it has
\* its row in the matrix, with 0 in every column of that position and the
\* tuple's own values in the columns of all other positions.
C6_UnseenIsZero ==
  (fitted /\ pc = "idle" /\ op = "transform" /\ IsMatrix(result)) =>
    \A r \in 1..Len(arg) : \A i \in 1..Len(arg[r].els) :
      (self.schema[i].t = "str" /\ <<i, arg[r].els[i]>> \notin Keys) =>
        /\ r <= Len(Rows(result))
        /\ \A c \in 1..Len(self.reverse) :
             Rows(result)[r][c] =
               IF self.reverse[c][1] = i THEN 0 ELSE CellOf(arg[r], self.reverse[c])

(***************************************************************************)
(* C8.  Validation of the data being fitted                                *)
(***************************************************************************)
\* the datapoint has the length of `first` and, position by position, values
\* of the same type
SameShape(first, d) ==
  /\ d.tuple
  /\ Len(d.els) = Len(first.els)
  /\ \A i \in 1..Len(d.els) : d.els[i].k = first.els[i].k

\* C8: fit returns the instance only for a dataset all of whose tuples have
\* the length of the first tuple and, at every position, a value of the
\* type the first tuple has there, whatever the kinds of the positions.
C8_FitValidates ==
  (pc = "idle" /\ op = "fit" /\ result.kind = "self") =>
    \A t \in 1..Len(arg \o unread) : SameShape(arg[1], (arg \o unread)[t])

(***************************************************************************)
(* C10.  Zeros in sparse mode                                              *)
(***************************************************************************)
\* C10: in a compressed-row result no stored value that sits in a Numeric
\* or FixedVector column is 0, and the row offsets are num_rows + 1
\* non-decreasing numbers that end at the number of stored values.
C10_ZerosOmitted ==
  (pc = "idle" /\ result.kind = "csr") =>
    /\ \A p \in 1..Len(result.data) :
         ~IsCategorical(self.reverse[result.indices[p] + 1]) => result.data[p] # 0
    /\ Len(result.indptr) = Len(arg) + 1
    /\ \A r \in 1..(Len(result.indptr) - 1) : result.indptr[r] <= result.indptr[r + 1]
    /\ result.indptr[Len(result.indptr)] = Len(result.data)

(***************************************************************************)
(* C2.  Dense against sparse                                               *)
(***************************************************************************)
\* C2: for the same fitted Column Index Map and the same dataset of valid
\* tuples, what sparse transform returns has the rows, the columns and the
\* cells of what dense transform returns.
C2_DenseSparse ==
  (phase = "M5" /\ pc = "idle" /\ IsMatrix(saved.result)) =>
    /\ IsMatrix(result)
    /\ result.shape = saved.result.shape
    /\ Rows(result) = Rows(saved.result)

====
